---- MODULE Spec2Model ----
(***************************************************************************)
(* Model of deep_research_groqai.py: the Streamlit script that chains one  *)
(* Firecrawl deep-research call and two Groq chat-completion calls.        *)
(*                                                                         *)
(* Python values are modelled as follows.  A str is a TLA+ string.  A dict *)
(* is a function whose domain is the set of its keys (a record), so        *)
(* d.get(k) is a test on DOMAIN d.  A value that may be None or a list is  *)
(* a tagged record: NoneVal, or ListVal(l) for the list l.  The character  *)
(* U+2026 (one code point) is written "~", and U+2013 is written "-",      *)
(* because module text is ASCII; no modelled input contains "~".           *)
(***************************************************************************)
EXTENDS Integers, Sequences, FiniteSets, TLC

VARIABLES
    \* ---- the script's module-level names and widgets
    groq_api_key,        \* sidebar text_input
    firecrawl_api_key,   \* sidebar text_input
    research_topic,      \* topic text_input
    model,               \* sidebar selectbox
    research,            \* result of run_deep_research, NoneVal before
    sources,             \* research.get("sources", [])
    formatted_sources,   \* digest shown in the expander and put in the prompt
    initial_report,      \* text of the first completion
    enhanced_report,     \* text of the second completion
    download,            \* st.download_button arguments, NoneVal if not offered
    warning,             \* text of st.warning in this script run, "" if none
    error,               \* text of st.error in this script run, "" if none
    \* ---- position of the script and record of the services' traffic
    pc,                  \* Idle, Fetching, Formatting, Drafting, Enhancing, Done, Failed
    run,                 \* number of presses of "Start Research" so far
    calls,               \* service calls of the current run, oldest first
    \* ---- one activation of _format_sources_for_prompt, for SpecFmt
    fmt_sources,         \* argument sources
    fmt_limit,           \* argument limit
    fmt_pc,              \* "call" before the function runs, "return" after
    fmt_lines,           \* local lines at return
    fmt_summaries,       \* local summary of each loop iteration, as appended
    fmt_out              \* return value, NoneVal before return

flow_vars == <<groq_api_key, firecrawl_api_key, research_topic, model, research, sources,
               formatted_sources, initial_report, enhanced_report, download,
               warning, error, pc, run, calls>>
fmt_vars == <<fmt_sources, fmt_limit, fmt_pc, fmt_lines, fmt_summaries, fmt_out>>
vars == <<flow_vars, fmt_vars>>

\* ------------------------------------------------------------------------
\* Program constants
\* ------------------------------------------------------------------------
DefaultLimit == 12
SummaryCap == 400
MaxDepthParam == 3
TimeLimitParam == 180
MaxUrlsParam == 10

\* ------------------------------------------------------------------------
\* Bounds of the model
\* ------------------------------------------------------------------------
MaxSources == 14     \* longest source list given to the formatter
MaxExtra == 3        \* most characters a summary body exceeds SummaryCap by
MaxRuns == 2         \* presses of "Start Research" in one session

\* ------------------------------------------------------------------------
\* Python values
\* ------------------------------------------------------------------------
NoneVal == [kind |-> "None"]
ListVal(l) == [kind |-> "list", items |-> l]
EmptyDict == [k \in {} |-> ""]

\* mutant: only None counts as absent
FalsyNoneOnly(v) == v.kind = "None"

\* bool(v) is False for None and for the empty list
Falsy(v) == v.kind = "None" \/ v.items = << >>

Min(a, b) == IF a < b THEN a ELSE b
Max(a, b) == IF a > b THEN a ELSE b

\* seq[:limit]
SliceTo(seq, limit) ==
    IF limit >= 0
    THEN SubSeq(seq, 1, Min(limit, Len(seq)))
    ELSE SubSeq(seq, 1, Max(0, Len(seq) + limit))

\* str[:n] for n >= 0
StrPrefix(s, n) == SubSeq(s, 1, Min(n, Len(s)))

Whitespace == {" ", "\t", "\n", "\r", "\f"}

RECURSIVE LStrip(_)
LStrip(s) ==
    IF s # "" /\ SubSeq(s, 1, 1) \in Whitespace
    THEN LStrip(SubSeq(s, 2, Len(s)))
    ELSE s

RECURSIVE RStrip(_)
RStrip(s) ==
    IF s # "" /\ SubSeq(s, Len(s), Len(s)) \in Whitespace
    THEN RStrip(SubSeq(s, 1, Len(s) - 1))
    ELSE s

\* str.strip()
Strip(s) == RStrip(LStrip(s))

\* sep.join(parts)
RECURSIVE Join(_, _)
Join(parts, sep) ==
    IF Len(parts) = 0 THEN ""
    ELSE IF Len(parts) = 1 THEN parts[1]
    ELSE parts[1] \o sep \o Join(Tail(parts), sep)

\* d.get(k1) or d.get(k2) or dflt, for a dict of strings
GetOr(d, k1, k2, dflt) ==
    IF k1 \in DOMAIN d /\ d[k1] # "" THEN d[k1]
    ELSE IF k2 \in DOMAIN d /\ d[k2] # "" THEN d[k2]
    ELSE dflt

Ellipsis == "~"
NoSources == "No sources."

\* ------------------------------------------------------------------------
\* _format_sources_for_prompt
\* ------------------------------------------------------------------------

\* mutant: the cut leaves room for the marker inside the cap
RenderSummaryCutShort(s) ==
    LET summary == Strip(GetOr(s, "summary", "content", ""))
    IN  IF Len(summary) > SummaryCap
        THEN StrPrefix(summary, SummaryCap - 1) \o Ellipsis
        ELSE summary

\* the value of summary when the loop body appends its line
RenderSummary(s) ==
    LET summary == Strip(GetOr(s, "summary", "content", ""))
    IN  IF Len(summary) > SummaryCap
        THEN StrPrefix(summary, SummaryCap) \o Ellipsis
        ELSE summary

\* the line appended for the i-th record of the slice
RenderLine(i, s) ==
    LET url == GetOr(s, "url", "link", "")
        title == GetOr(s, "title", "name", "Untitled")
    IN  ToString(i) \o ". " \o title \o "\n   URL: " \o url
        \o "\n   Summary: " \o RenderSummary(s)

\* mutant: the loop visits the whole list
LoopRecordsNoCap(items, limit) == items

\* the records the loop visits
LoopRecords(items, limit) == SliceTo(items, limit)

\* lines after the loop
FormatLines(items, limit) ==
    LET taken == LoopRecords(items, limit)
    IN  [i \in 1..Len(taken) |-> RenderLine(i, taken[i])]

FormatSummaries(items, limit) ==
    LET taken == LoopRecords(items, limit)
    IN  [i \in 1..Len(taken) |-> RenderSummary(taken[i])]

\* the function's return value; srcs is NoneVal or ListVal(l)
FormatSourcesForPrompt(srcs, limit) ==
    IF Falsy(srcs) THEN NoSources
    ELSE Join(FormatLines(srcs.items, limit), "\n\n")

\* ------------------------------------------------------------------------
\* Inputs of the formatter: source lists as the research service may return
\* ------------------------------------------------------------------------
RECURSIVE Rep(_, _)
Rep(s, n) == IF n <= 0 THEN "" ELSE s \o Rep(s, n - 1)

\* a text of exactly n characters, none of them whitespace
Body(n) == SubSeq(Rep("abcdefg", n \div 7 + 1), 1, n)

BodyLens == {0, 5, SummaryCap - 1, SummaryCap, SummaryCap + 1, SummaryCap + MaxExtra}
Pads == {"", " ", "\n "}

\* summaries around the cap, with and without surrounding whitespace
ProbeSummaries == {l \o Body(n) \o r : l \in Pads, n \in BodyLens, r \in Pads}

\* the i-th record of a list: its keys vary with shape, its title and URL
\* with i, and the shapes that carry a long text carry the probe
SourceRecord(shape, i, probe) ==
    LET t == "T" \o ToString(i)
        u == "http://h/" \o ToString(i)
    IN  CASE shape = 0 -> [title |-> t, url |-> u, summary |-> probe]
          [] shape = 1 -> [name |-> t, link |-> u, content |-> probe]
          [] shape = 2 -> [url |-> u, summary |-> " two words "]
          [] shape = 3 -> [title |-> "", name |-> t, url |-> "", link |-> u,
                           summary |-> "", content |-> probe]
          [] shape = 4 -> [title |-> t, summary |-> "s", content |-> probe]
          [] OTHER -> EmptyDict

SourceList(n, first, probe) ==
    [i \in 1..n |-> SourceRecord((first + i) % 6, i, probe)]

FmtLimits == {-1, 0, 1, DefaultLimit - 1, DefaultLimit, DefaultLimit + 1}

FmtInputs ==
    {NoneVal} \cup
    {ListVal(SourceList(n, first, probe)) :
        n \in 0..MaxSources, first \in {0, 3}, probe \in ProbeSummaries}

FmtInit ==
    /\ fmt_sources \in FmtInputs
    /\ fmt_limit \in FmtLimits
    /\ fmt_pc = "call"
    /\ fmt_lines = << >>
    /\ fmt_summaries = << >>
    /\ fmt_out = NoneVal

\* one call of _format_sources_for_prompt(fmt_sources, fmt_limit)
FormatCall ==
    /\ fmt_pc = "call"
    /\ fmt_pc' = "return"
    /\ fmt_lines' = IF Falsy(fmt_sources) THEN << >>
                    ELSE FormatLines(fmt_sources.items, fmt_limit)
    /\ fmt_summaries' = IF Falsy(fmt_sources) THEN << >>
                        ELSE FormatSummaries(fmt_sources.items, fmt_limit)
    /\ fmt_out' = FormatSourcesForPrompt(fmt_sources, fmt_limit)
    /\ UNCHANGED <<fmt_sources, fmt_limit>>

FlowIdle ==
    /\ groq_api_key = ""
    /\ firecrawl_api_key = ""
    /\ research_topic = ""
    /\ model = "llama-3.1-70b-versatile"
    /\ research = NoneVal
    /\ sources = NoneVal
    /\ formatted_sources = NoneVal
    /\ initial_report = NoneVal
    /\ enhanced_report = NoneVal
    /\ download = NoneVal
    /\ warning = ""
    /\ error = ""
    /\ pc = "Idle"
    /\ run = 0
    /\ calls = << >>

InitFmt == FmtInit /\ FlowIdle
NextFmt == FormatCall /\ UNCHANGED flow_vars
SpecFmt == InitFmt /\ [][NextFmt]_vars

\* ------------------------------------------------------------------------
\* Helpers of the main flow
\* ------------------------------------------------------------------------
ModelOptions == <<"llama-3.1-70b-versatile", "llama-3.1-8b-instant",
                  "mixtral-8x7b-32768", "openai/gpt-oss-120b", "openai/gpt-oss-20b">>

WarnGroq == "Please provide your Groq API key in the sidebar."
WarnFirecrawl == "Please provide your Firecrawl API key in the sidebar."

\* mutant: only the first key is required
RequireKeysGroqOnly(gk, fk) ==
    IF gk = "" THEN [ok |-> FALSE, warning |-> WarnGroq]
    ELSE [ok |-> TRUE, warning |-> ""]

\* _require_keys: its return value and the warning it shows
RequireKeys(gk, fk) ==
    IF gk = "" THEN [ok |-> FALSE, warning |-> WarnGroq]
    ELSE IF fk = "" THEN [ok |-> FALSE, warning |-> WarnFirecrawl]
    ELSE [ok |-> TRUE, warning |-> ""]

\* d.get(k, dflt)
Get(d, k, dflt) == IF k \in DOMAIN d THEN d[k] ELSE dflt

AttributeErrorMsg == "'NoneType' object has no attribute 'get'"

\* mutant: the handler reports a fixed text instead of str(e)
ResearchFailureGeneric(msg) ==
    [success |-> FALSE, error |-> "research failed", final_analysis |-> "",
     sources |-> ListVal(<< >>)]

\* the dict returned by the except branch of run_deep_research
ResearchFailure(msg) ==
    [success |-> FALSE, error |-> msg, final_analysis |-> "",
     sources |-> ListVal(<< >>)]

\* mutant: a response without sources is reported as a failure
RunDeepResearchNeedsSources(outcome) ==
    IF outcome.raised THEN ResearchFailure(outcome.msg)
    ELSE IF outcome.results = NoneVal THEN ResearchFailure(AttributeErrorMsg)
    ELSE LET data == Get(outcome.results, "data", EmptyDict)
         IN  IF data = NoneVal THEN ResearchFailure(AttributeErrorMsg)
             ELSE IF Falsy(Get(data, "sources", ListVal(<< >>)))
                  THEN ResearchFailure("no sources")
                  ELSE [success |-> TRUE,
                        final_analysis |-> Get(data, "finalAnalysis", ""),
                        sources |-> Get(data, "sources", ListVal(<< >>))]

\* run_deep_research, given what app.deep_research did: it raised
\* outcome.msg, or it returned outcome.results
RunDeepResearch(outcome) ==
    IF outcome.raised THEN ResearchFailure(outcome.msg)
    ELSE IF outcome.results = NoneVal THEN ResearchFailure(AttributeErrorMsg)
    ELSE LET data == Get(outcome.results, "data", EmptyDict)
         IN  IF data = NoneVal THEN ResearchFailure(AttributeErrorMsg)
             ELSE [success |-> TRUE,
                   final_analysis |-> Get(data, "finalAnalysis", ""),
                   sources |-> Get(data, "sources", ListVal(<< >>))]

\* the request of app.deep_research
ResearchRequest(key, query) ==
    [svc |-> "research", api_key |-> key, query |-> query,
     params |-> [maxDepth |-> MaxDepthParam, timeLimit |-> TimeLimitParam,
                 maxUrls |-> MaxUrlsParam]]

\* mutant: the script goes on whatever the research result says
AfterFetchNoStop(r) == "Formatting"

\* the script's position after step 1
AfterFetch(r) == IF r.success THEN "Formatting" ELSE "Failed"

\* the request of client.chat.completions.create
GroqRequest(key, mdl, system, user, temperature) ==
    [svc |-> "completion", api_key |-> key, model |-> mdl,
     temperature |-> temperature,
     messages |-> <<[role |-> "system", content |-> system],
                    [role |-> "user", content |-> user]>>]

\* groq_chat raises when the service raises and when choices[0] does not exist
GroqRaises(outcome) == outcome.raised \/ Len(outcome.choices) = 0

\* mutant: the last choice is returned
GroqReturnLast(outcome) == outcome.choices[Len(outcome.choices)]

\* resp.choices[0].message.content
GroqReturn(outcome) == outcome.choices[1]

\* mutant: a failed completion is tried again
AfterCompletionRaiseRetry(at) == at

\* an exception of groq_chat is not caught: the script run ends
AfterCompletionRaise(at) == "Failed"

SystemPrompt ==
    "You are a careful research assistant. Write a concise, well-structured report "
    \o "with headings, bullet points, and short paragraphs. Include citations as numbered "
    \o "[n] markers mapped to the provided source list. If something is uncertain, state so."

DraftInstructions ==
    "Write a report (600-1000 words) covering: key points, context/background, current developments, "
    \o "risks/limitations, and a short FAQ. Use [n] citation markers that refer to the numbered sources above."

\* user_prompt of step 2
UserPrompt(topic, digest) ==
    "TOPIC: " \o topic \o "\n\n" \o "SOURCES:\n" \o digest \o "\n\n" \o DraftInstructions

SystemPrompt2 ==
    "You are an expert content enhancer. Improve clarity, add examples, brief case studies, "
    \o "and practical takeaways for different stakeholders. Keep original structure but expand with useful detail. "
    \o "Do not invent citations; keep the same [n] mapping."

EnhanceLead == "Enhance the following report. Preserve headings and citation markers.\n\n"

\* user_prompt2 of step 3
UserPrompt2(report) == EnhanceLead \o report

\* str.replace(' ', '_')
RECURSIVE ReplaceSpaces(_)
ReplaceSpaces(s) ==
    IF s = "" THEN ""
    ELSE (IF SubSeq(s, 1, 1) = " " THEN "_" ELSE SubSeq(s, 1, 1))
         \o ReplaceSpaces(SubSeq(s, 2, Len(s)))

\* mutant: the button is given the first report
DownloadArgsDraft(topic, draft, enhanced) ==
    [label |-> "Download Enhanced Report (Markdown)", data |-> draft,
     file_name |-> ReplaceSpaces(topic) \o "_report.md", mime |-> "text/markdown"]

\* the arguments of st.download_button
DownloadArgs(topic, draft, enhanced) ==
    [label |-> "Download Enhanced Report (Markdown)", data |-> enhanced,
     file_name |-> ReplaceSpaces(topic) \o "_report.md", mime |-> "text/markdown"]

\* ------------------------------------------------------------------------
\* Inputs of the main flow
\* ------------------------------------------------------------------------
Keys == {"", "key"}
Topics == {"", "AI safety", "x"}
Models == {ModelOptions[i] : i \in {1, 5}}
ErrMsgs == {"timeout", "401 Unauthorized"}
Reports == {"Report A", "Report B"}

FlowSourceLists ==
    {SourceList(n, 0, " " \o Body(SummaryCap + 1)) : n \in {0, 1, 2, DefaultLimit + 1}}

\* what app.deep_research may return
ResearchResults ==
    {NoneVal, EmptyDict, [data |-> NoneVal], [data |-> EmptyDict],
     [data |-> [finalAnalysis |-> "analysis"]],
     [data |-> [finalAnalysis |-> "analysis", sources |-> NoneVal]]}
    \cup {[data |-> [finalAnalysis |-> "analysis", sources |-> ListVal(l)]] :
            l \in FlowSourceLists}

ResearchOutcomes ==
    {[raised |-> TRUE, msg |-> m] : m \in ErrMsgs}
    \cup {[raised |-> FALSE, results |-> r] : r \in ResearchResults}

\* what client.chat.completions.create may do
CompletionOutcomes ==
    {[raised |-> TRUE, msg |-> "rate limited"]}
    \cup {[raised |-> FALSE, choices |-> c] :
            c \in {<< >>} \cup {<<a>> : a \in Reports}
                  \cup {<<a, b>> : a \in Reports, b \in Reports}}

\* ------------------------------------------------------------------------
\* The script
\* ------------------------------------------------------------------------
Init ==
    /\ groq_api_key \in Keys          \* os.getenv("GROQ_API_KEY", "")
    /\ firecrawl_api_key \in Keys     \* os.getenv("FIRECRAWL_API_KEY", "")
    /\ research_topic = ""
    /\ model = ModelOptions[1]        \* index=0
    /\ research = NoneVal
    /\ sources = NoneVal
    /\ formatted_sources = NoneVal
    /\ initial_report = NoneVal
    /\ enhanced_report = NoneVal
    /\ download = NoneVal
    /\ warning = ""
    /\ error = ""
    /\ pc = "Idle"
    /\ run = 0
    /\ calls = << >>
    /\ fmt_sources = NoneVal
    /\ fmt_limit = DefaultLimit
    /\ fmt_pc = "call"
    /\ fmt_lines = << >>
    /\ fmt_summaries = << >>
    /\ fmt_out = NoneVal

\* The user fills the widgets and presses "Start Research"; the script runs
\* from the top with fresh locals, up to the first service call.
StartResearch ==
    /\ pc \in {"Idle", "Done", "Failed"}
    /\ run < MaxRuns
    /\ \E gk \in Keys, fk \in Keys, t \in Topics, m \in Models :
        /\ t # ""                     \* disabled=not research_topic
        /\ groq_api_key' = gk
        /\ firecrawl_api_key' = fk
        /\ research_topic' = t
        /\ model' = m
        /\ warning' = RequireKeys(gk, fk).warning
        /\ pc' = IF RequireKeys(gk, fk).ok THEN "Fetching" ELSE "Idle"
    /\ run' = run + 1
    /\ research' = NoneVal
    /\ sources' = NoneVal
    /\ formatted_sources' = NoneVal
    /\ initial_report' = NoneVal
    /\ enhanced_report' = NoneVal
    /\ download' = NoneVal
    /\ error' = ""
    /\ calls' = << >>
    /\ UNCHANGED fmt_vars

\* Step 1: run_deep_research and the test of its result
Fetch ==
    /\ pc = "Fetching"
    /\ \E o \in ResearchOutcomes :
        LET r == RunDeepResearch(o)
        IN  /\ research' = r
            /\ calls' = Append(calls, [req |-> ResearchRequest(firecrawl_api_key,
                                                               research_topic),
                                       outcome |-> o])
            /\ error' = IF r.success THEN "" ELSE "Deep research error: " \o r.error
            /\ pc' = AfterFetch(r)
    /\ UNCHANGED <<groq_api_key, firecrawl_api_key, research_topic, model, sources,
                   formatted_sources, initial_report, enhanced_report, download,
                   warning, run, fmt_vars>>

\* sources and formatted_sources, shown in the expander
Format ==
    /\ pc = "Formatting"
    /\ sources' = research.sources
    /\ formatted_sources' = FormatSourcesForPrompt(research.sources, DefaultLimit)
    /\ pc' = "Drafting"
    /\ UNCHANGED <<groq_api_key, firecrawl_api_key, research_topic, model, research,
                   initial_report, enhanced_report, download, warning, error, run,
                   calls, fmt_vars>>

\* Step 2: the first groq_chat
Draft ==
    /\ pc = "Drafting"
    /\ \E o \in CompletionOutcomes :
        /\ calls' = Append(calls,
                [req |-> GroqRequest(groq_api_key, model, SystemPrompt,
                                     UserPrompt(research_topic, formatted_sources),
                                     "0.2"),
                 outcome |-> o])
        /\ IF GroqRaises(o)
           THEN /\ pc' = AfterCompletionRaise(pc)
                /\ UNCHANGED initial_report
           ELSE /\ pc' = "Enhancing"
                /\ initial_report' = GroqReturn(o)
    /\ UNCHANGED <<groq_api_key, firecrawl_api_key, research_topic, model, research,
                   sources, formatted_sources, enhanced_report, download, warning,
                   error, run, fmt_vars>>

\* Step 3: the second groq_chat, and step 4: the download button
Enhance ==
    /\ pc = "Enhancing"
    /\ \E o \in CompletionOutcomes :
        /\ calls' = Append(calls,
                [req |-> GroqRequest(groq_api_key, model, SystemPrompt2,
                                     UserPrompt2(initial_report), "0.3"),
                 outcome |-> o])
        /\ IF GroqRaises(o)
           THEN /\ pc' = AfterCompletionRaise(pc)
                /\ UNCHANGED <<enhanced_report, download>>
           ELSE /\ pc' = "Done"
                /\ enhanced_report' = GroqReturn(o)
                /\ download' = DownloadArgs(research_topic, initial_report,
                                            GroqReturn(o))
    /\ UNCHANGED <<groq_api_key, firecrawl_api_key, research_topic, model, research,
                   sources, formatted_sources, initial_report, warning, error, run,
                   fmt_vars>>

Next == StartResearch \/ Fetch \/ Format \/ Draft \/ Enhance
Spec == Init /\ [][Next]_vars

\* ------------------------------------------------------------------------
\* Properties of _format_sources_for_prompt (checked under SpecFmt)
\* ------------------------------------------------------------------------
Contains(s, sub) ==
    \E k \in 1..(Len(s) - Len(sub) + 1) : SubSeq(s, k, k + Len(sub) - 1) = sub

FmtReturned == fmt_pc = "return"
FmtIsList == fmt_sources.kind = "list"

\* C4: a list of more than 12 records, formatted with the default limit,
\* gives exactly 12 entries, numbered 1..12, which are the first 12 records
\* in their order; nothing of record 13 or later is in the digest.
C4_FirstTwelve ==
    (FmtReturned /\ FmtIsList /\ fmt_limit = DefaultLimit
                 /\ Len(fmt_sources.items) > 12)
    => /\ Len(fmt_lines) = 12
       /\ \A i \in 1..12 :
            /\ fmt_lines[i] = RenderLine(i, fmt_sources.items[i])
            /\ StrPrefix(fmt_lines[i], Len(ToString(i)) + 2) = ToString(i) \o ". "
       /\ fmt_out = Join(fmt_lines, "\n\n")
       /\ \A j \in 13..Len(fmt_sources.items) :
            /\ ~Contains(fmt_out, "T" \o ToString(j))
            /\ ~Contains(fmt_out, "http://h/" \o ToString(j))

C4_Witness ==
    /\ FmtReturned /\ FmtIsList /\ fmt_limit = DefaultLimit
    /\ Len(fmt_sources.items) = 14
    /\ Len(fmt_lines) = 12
    /\ Contains(fmt_out, "\n\n12. ")

\* C5 as stated: a summary longer than 400 characters is rendered as 401
\* characters whose first 400 are the first 400 of the original summary.
C5_AsStated ==
    FmtReturned =>
        \A i \in 1..Len(fmt_summaries) :
            LET s == fmt_sources.items[i]
            IN  ("summary" \in DOMAIN s /\ Len(s.summary) > 400)
                => /\ Len(fmt_summaries[i]) = 401
                   /\ StrPrefix(fmt_summaries[i], 400) = StrPrefix(s.summary, 400)

\* C5 amended: a summary that is longer than 400 characters once its leading
\* and trailing whitespace is removed is rendered as 401 characters: the
\* first 400 of the stripped summary, then the ellipsis marker.  The line of
\* the record ends with that text.
C5_StrippedThenCut ==
    FmtReturned =>
        \A i \in 1..Len(fmt_summaries) :
            LET s == fmt_sources.items[i]
            IN  ("summary" \in DOMAIN s /\ Len(Strip(s.summary)) > 400)
                => /\ Len(fmt_summaries[i]) = 401
                   /\ StrPrefix(fmt_summaries[i], 400) = StrPrefix(Strip(s.summary), 400)
                   /\ SubSeq(fmt_summaries[i], 401, 401) = Ellipsis
                   /\ SubSeq(fmt_lines[i], Len(fmt_lines[i]) - 400, Len(fmt_lines[i]))
                        = fmt_summaries[i]

C5_Witness ==
    /\ FmtReturned /\ FmtIsList
    /\ \E i \in 1..Len(fmt_summaries) :
         LET s == fmt_sources.items[i]
         IN  /\ "summary" \in DOMAIN s
             /\ Len(Strip(s.summary)) > 400
             /\ Len(s.summary) > Len(Strip(s.summary))
             /\ Len(fmt_summaries[i]) = 401

\* C6: None and the empty list give exactly "No sources." whatever the
\* limit; a non-empty list with a positive limit never gives it.
C6_Sentinel ==
    FmtReturned =>
        /\ (fmt_sources.kind = "None" \/ Len(fmt_sources.items) = 0)
            => fmt_out = "No sources."
        /\ (FmtIsList /\ Len(fmt_sources.items) > 0 /\ fmt_limit > 0)
            => (fmt_out # "No sources." /\ Len(fmt_lines) > 0)

C6_Witness ==
    /\ FmtReturned /\ FmtIsList
    /\ Len(fmt_sources.items) = 0
    /\ fmt_limit < 0
    /\ fmt_out = "No sources."

\* ------------------------------------------------------------------------
\* Properties of the main flow (checked under Spec)
\* ------------------------------------------------------------------------
NumCalls(svc) == Cardinality({i \in 1..Len(calls) : calls[i].req.svc = svc})

\* the service raised, or groq_chat raised on its response
CallFailed(c) ==
    IF c.req.svc = "research" THEN c.outcome.raised
    ELSE c.outcome.raised \/ c.outcome.choices = << >>

MissingKey == groq_api_key = "" \/ firecrawl_api_key = ""

\* C1: a run started with the Groq key or the Firecrawl key empty is
\* blocked: a warning is shown, the script stays idle and neither service
\* is called in that run.
C1_MissingKeyBlocks ==
    (run > 0 /\ MissingKey)
    => /\ warning \in {WarnGroq, WarnFirecrawl}
       /\ calls = << >>
       /\ pc = "Idle"
       /\ download = NoneVal

C1_Witness ==
    /\ run > 0
    /\ groq_api_key = "key"
    /\ firecrawl_api_key = ""
    /\ warning = WarnFirecrawl
    /\ pc = "Idle"

\* C2: when the research call raises, run_deep_research returns
\* success=False with the exception's message, an empty analysis and an
\* empty source list, and no completion call follows in that run.
C2_ResearchRaises ==
    (Len(calls) >= 1 /\ calls[1].outcome.raised)
    => /\ calls[1].req.svc = "research"
       /\ research = [success |-> FALSE, error |-> calls[1].outcome.msg,
                      final_analysis |-> "", sources |-> ListVal(<< >>)]
       /\ Len(calls) = 1
       /\ NumCalls("completion") = 0
       /\ pc = "Failed"

C2_Witness ==
    /\ Len(calls) = 1
    /\ calls[1].outcome.raised
    /\ research.error = "timeout"
    /\ pc = "Failed"

C3_Edges ==
    {<<"Fetching", "Formatting">>, <<"Formatting", "Drafting">>,
     <<"Drafting", "Enhancing">>, <<"Enhancing", "Done">>,
     <<"Fetching", "Failed">>, <<"Drafting", "Failed">>, <<"Enhancing", "Failed">>}

\* a press of the button leaves Idle, or a finished run, for Fetching (or
\* is blocked in Idle); within a run only the edges above are taken
C3_Step ==
    IF run' # run
    THEN pc \in {"Idle", "Done", "Failed"} /\ pc' \in {"Idle", "Fetching"}
    ELSE <<pc, pc'>> \in C3_Edges

\* what has happened in the run at each position
C3_Order ==
    /\ pc \in {"Idle", "Fetching", "Formatting", "Drafting", "Enhancing", "Done", "Failed"}
    /\ \A i \in 1..Len(calls) :
         calls[i].req.svc = (IF i = 1 THEN "research" ELSE "completion")
    /\ pc \in {"Idle", "Fetching"} => calls = << >>
    /\ pc = "Formatting" => Len(calls) = 1 /\ research.success
    /\ pc = "Drafting" => Len(calls) = 1
    /\ pc = "Enhancing" => Len(calls) = 2
    /\ pc = "Done" => Len(calls) = 3 /\ ~CallFailed(calls[3])
    /\ pc = "Failed" =>
         /\ Len(calls) >= 1
         /\ IF Len(calls) = 1 THEN ~research.success
            ELSE CallFailed(calls[Len(calls)])
    /\ Len(calls) >= 2 =>
         /\ ~calls[1].outcome.raised
         /\ research.success
         /\ sources = research.sources
         /\ formatted_sources = FormatSourcesForPrompt(sources, 12)
    /\ Len(calls) >= 3 =>
         /\ ~CallFailed(calls[2])
         /\ initial_report \in Reports

\* C3: every run goes Idle, Fetching, Formatting, Drafting, Enhancing, Done
\* in that order; the draft call is made only after a successful research
\* call and the formatting, the enhance call only after the draft call
\* returned; Failed is entered only from Fetching, Drafting or Enhancing, and
\* nothing leaves Done or Failed within the run.
C3_StateMachine == [][C3_Step]_vars /\ []C3_Order

C3_Witness ==
    /\ pc = "Done"
    /\ Len(calls) = 3
    /\ run = 2

\* C7: when the run is Done, the text given to the download button is the
\* text the run's enhance call returned; the button exists only then.
C7_DownloadIsEnhanced ==
    /\ pc = "Done" =>
         /\ Len(calls) = 3
         /\ calls[3].req.messages[1].content = SystemPrompt2
         /\ ~CallFailed(calls[3])
         /\ download.data = calls[3].outcome.choices[1]
    /\ pc # "Done" => download = NoneVal

C7_Witness ==
    /\ pc = "Done"
    /\ run = 2
    /\ calls[2].outcome.choices = <<"Report A">>
    /\ calls[3].outcome.choices = <<"Report B", "Report A">>
    /\ download.data = "Report B"

C8_Counts ==
    /\ NumCalls("research") <= 1
    /\ NumCalls("completion") <= 2
    /\ \A i \in 1..Len(calls) :
         CallFailed(calls[i]) =>
            /\ i = Len(calls)
            /\ pc = "Failed"
            /\ download = NoneVal

\* within a run the record of calls only grows, and not at all after a failure
C8_Step ==
    run' = run =>
        /\ Len(calls') >= Len(calls)
        /\ SubSeq(calls', 1, Len(calls)) = calls
        /\ pc = "Failed" => (calls' = calls /\ download' = NoneVal /\ pc' = "Failed")

\* C8: in a run the research service is called at most once and the
\* completion service at most twice; after a failed call no service is
\* called again and no download is offered in that run.
C8_NoRetry == []C8_Counts /\ [][C8_Step]_vars

C8_Witness ==
    /\ pc = "Failed"
    /\ Len(calls) = 2
    /\ calls[2].outcome.raised
    /\ download = NoneVal

\* C9: every completion request has two messages, system then user; the
\* call gives back the first choice's content; the draft's user message is
\* made of the run's topic and digest, the enhancer's user message ends with
\* the very text the draft call returned.
C9_Requests ==
    /\ \A i \in 1..Len(calls) :
         calls[i].req.svc = "completion" =>
            /\ Len(calls[i].req.messages) = 2
            /\ calls[i].req.messages[1].role = "system"
            /\ calls[i].req.messages[2].role = "user"
    /\ Len(calls) >= 2 =>
         /\ calls[2].req.messages[1].content = SystemPrompt
         /\ formatted_sources = FormatSourcesForPrompt(research.sources, 12)
         /\ calls[2].req.messages[2].content =
              "TOPIC: " \o research_topic \o "\n\nSOURCES:\n" \o formatted_sources
              \o "\n\n" \o DraftInstructions
    /\ pc \in {"Enhancing", "Done"} =>
         initial_report = calls[2].outcome.choices[1]
    /\ Len(calls) >= 3 =>
         /\ initial_report = calls[2].outcome.choices[1]
         /\ calls[3].req.messages[1].content = SystemPrompt2
         /\ calls[3].req.messages[2].content =
              EnhanceLead \o calls[2].outcome.choices[1]
    /\ pc = "Done" => enhanced_report = calls[3].outcome.choices[1]

C9_Witness ==
    /\ pc = "Done"
    /\ calls[2].outcome.choices = <<"Report B", "Report A">>
    /\ calls[3].req.messages[2].content = EnhanceLead \o "Report B"
    /\ sources.kind = "list"
    /\ Len(sources.items) = 2

\* the research call returned, and its response has no "data", or data has
\* no "sources", or sources is the empty list
NoSourcesResponse(o) ==
    /\ ~o.raised
    /\ o.results # NoneVal
    /\ \/ "data" \notin DOMAIN o.results
       \/ /\ o.results.data # NoneVal
          /\ \/ "sources" \notin DOMAIN o.results.data
             \/ o.results.data.sources = ListVal(<< >>)

\* C10: a research response without sources is a success with sources=[];
\* the run does not fail on it, and the draft prompt carries "No sources.".
C10_EmptyIsSuccess ==
    (Len(calls) >= 1 /\ NoSourcesResponse(calls[1].outcome))
    => /\ research.success
       /\ research.sources = ListVal(<< >>)
       /\ pc = "Failed" => (Len(calls) >= 2 /\ CallFailed(calls[Len(calls)]))
       /\ Len(calls) >= 2 =>
            /\ formatted_sources = "No sources."
            /\ Contains(calls[2].req.messages[2].content,
                        "SOURCES:\nNo sources.\n\n")

C10_Witness ==
    /\ pc = "Done"
    /\ "data" \notin DOMAIN calls[1].outcome.results
    /\ formatted_sources = "No sources."
    /\ download.data \in Reports

====
